---- MODULE Spec2Model ----
(***************************************************************************)
(* The ETL script src/src/pyspark.py, run by the launcher src/main.py, as  *)
(* a state machine over the storage it touches: the Unity Catalog volume   *)
(* (input / output / other folders), the workspace copies under            *)
(* datasets/, the local source file and the artifact the Publisher         *)
(* uploads.  One action per statement group of the script, in source       *)
(* order; every fallible call has its failing outcome.                     *)
(***************************************************************************)
EXTENDS Integers, Sequences, FiniteSets, TLC

\* Number of distinct files that may lie in the "other" volume folder and
\* in the prior workspace copy of it.
MaxOtherFiles == 1

\* Number of times the Storage Preparer is run against the same storage when
\* its idempotence is checked.
MaxPrepRuns == 2

\* for folder in [INPUT_VOL, OUTPUT_VOL, OTHER_VOL]
Folders == <<"input", "output", "other">>

\* PARQUET_PATH, CSV_OUT, PARTITION_OUT: the three trees written under OUTPUT_VOL
OutNames == {"parquet_data", "csv_output", "partitioned_csv"}

OtherNames == 1..MaxOtherFiles

\* target_volume_file / CSV_PATH and JSON_PATH, relative to INPUT_VOL
CsvFile == "2015-summary.csv"

JsonFile == "multiline.json"

InputNames == {CsvFile, JsonFile}

\* local_source_file, the raw source outside the pipeline
LocalSource == "datasets/input/2015-summary.csv"

\* the local_file argument of the upload_to_s3 call
ResultCsv == "datasets/output/result.csv"

VARIABLES
  pc,          \* position in pyspark.py
  folderIdx,   \* index of the mkdirs loop (0 before the loop)
  syncIdx,     \* which sync_back_to_workspace call is running (1 or 2)
  launcher,    \* main.py: "start", "running", "ok", "error"
  mounted,     \* whether os.* sees the volume (driver mount)
  localSource, \* whether local_source_file exists
  resultCsv,   \* whether datasets/output/result.csv exists under the cwd
  volume,      \* whether the volume exists
  folder,      \* folder[f]: whether the volume folder exists
  inputFiles,  \* files in INPUT_VOL
  shadowCsv,   \* copy made by shutil on an unmounted path (not seen by Spark)
  outVol,      \* OUTPUT_VOL: name -> "none" | "prev" | "run" | "part"
  otherVol,    \* OTHER_VOL: file -> "none" | "prev"
  wsOut,       \* workspace_output_target: [exists, files]
  wsOther,     \* workspace_other_target: [exists, files]
  markers,     \* <<unit, kind>> printed or logged by the script itself
  stageLog,    \* stages in the order they were entered
  ended,       \* <<unit, outcome>> of every unit of work that ended
  consumed,    \* paths a stage read (or tried to read)
  produced,    \* paths a stage of this run wrote
  calls,       \* number of invocations of the external services
  committed,   \* what each completed writing step left at its location
  store0,      \* the volume at the start of the run
  ws0,         \* the workspace copies at the start of the run
  prepRuns,    \* completed runs of the Storage Preparer
  prepSnap,    \* the volume after the first run of the Storage Preparer
  dfIn,        \* the DataFrames a Step 9 transformation is applied to
  dfOut        \* the DataFrames it returns (NoFrames before it is applied)

ctl == <<pc, folderIdx, syncIdx, launcher>>

env == <<mounted, localSource, resultCsv>>

vol == <<volume, folder, inputFiles, shadowCsv, outVol, otherVol>>

ws == <<wsOut, wsOther>>

hist == <<markers, stageLog, ended, consumed, produced, calls, committed, store0, ws0>>

prep == <<prepRuns, prepSnap>>

df == <<dfIn, dfOut>>

vars == <<ctl, env, vol, ws, hist, prep, df>>

----------------------------------------------------------------------------
\* Trees

NoFiles(names) == [n \in names |-> "none"]

Absent(names) == [exists |-> FALSE, files |-> NoFiles(names)]

Present(t) == {n \in DOMAIN t : t[n] # "none"}

\* What earlier runs can have left under OUTPUT_VOL: the writes happen in the
\* order parquet_data, csv_output, partitioned_csv.
PriorOutVols ==
  { [n \in OutNames |-> IF n \in s THEN "prev" ELSE "none"] :
      s \in { {}, {"parquet_data"}, {"parquet_data", "csv_output"}, OutNames } }

PriorTrees(names, tag) ==
  { [exists |-> TRUE, files |-> [n \in names |-> IF n \in s THEN tag ELSE "none"]] :
      s \in SUBSET names } \cup {Absent(names)}

\* The volume as one value
Store ==
  [volume |-> volume, folder |-> folder, inputFiles |-> inputFiles,
   outVol |-> outVol, otherVol |-> otherVol]

SetStore(st) ==
  /\ volume' = st.volume
  /\ folder' = st.folder
  /\ inputFiles' = st.inputFiles
  /\ outVol' = st.outVol
  /\ otherVol' = st.otherVol

----------------------------------------------------------------------------
\* Units of work and the stage each belongs to

Units == {"Preparer", "Extractor", "Transformer", "WriteParquet", "WriteCsv",
          "WritePartitioned", "Sync1", "Sync2", "Publisher"}

StageOf(unit) ==
  CASE unit = "Preparer" -> "Preparer"
    [] unit = "Extractor" -> "Extractor"
    [] unit = "Transformer" -> "Transformer"
    [] unit = "Publisher" -> "Publisher"
    [] OTHER -> "Loader"

\* Entering a step of `unit`: its stage is logged when it differs from the
\* stage that is running.
Entered(log, unit) ==
  IF log # <<>> /\ log[Len(log)] = StageOf(unit) THEN log
  ELSE Append(log, StageOf(unit))

\* The marker the script itself prints or logs when `unit` ends.
\*   Preparer  ok: print line 37            fail: none (uncaught)
\*   Extractor ok: print line 71            fail: print lines 73-74
\*   Transformer ok: logger.info line 685   fail: none (uncaught)
\*   WriteParquet: none                     fail: none (uncaught)
\*   WriteCsv ok: print line 154            fail: none (uncaught)
\*   WritePartitioned ok: print line 169    fail: none (uncaught)
\*   Sync ok: print line 717, fail: print line 719 or 721
\*   Publisher ok: print line 754           fail: none (uncaught)
MarkerOf(unit, outcome) ==
  CASE unit \in {"Extractor", "Sync1", "Sync2"} -> {<<unit, outcome>>}
    [] unit = "WriteParquet" -> {}
    [] OTHER -> IF outcome = "ok" THEN {<<unit, "ok">>} ELSE {}

\* A unit of work ends with `outcome`: what is printed, and the record of it.
EndMarkers(unit, outcome) == markers \cup MarkerOf(unit, outcome)

EndRecord(unit, outcome) == ended \cup {<<unit, outcome>>}

SyncUnit(i) == IF i = 1 THEN "Sync1" ELSE "Sync2"

----------------------------------------------------------------------------
\* No DataFrame is held.
NoFrames == [kind |-> "none"]

Init ==
  /\ pc = "NotStarted"
  /\ folderIdx = 0
  /\ syncIdx = 1
  /\ launcher = "start"
  /\ mounted \in BOOLEAN
  /\ localSource \in BOOLEAN
  /\ resultCsv \in BOOLEAN
  /\ volume \in BOOLEAN
  /\ folder \in [{"input", "output", "other"} -> BOOLEAN]
  /\ (~volume => \A f \in DOMAIN folder : ~folder[f])
  /\ inputFiles \in SUBSET InputNames
  /\ (~folder["input"] => inputFiles = {})
  /\ shadowCsv = FALSE
  /\ outVol \in PriorOutVols
  /\ (~folder["output"] => outVol = NoFiles(OutNames))
  /\ otherVol \in [OtherNames -> {"none", "prev"}]
  /\ (~folder["other"] => otherVol = NoFiles(OtherNames))
  /\ wsOut \in PriorTrees(OutNames, "ws")
  /\ wsOther \in PriorTrees(OtherNames, "ws")
  /\ markers = {}
  /\ stageLog = <<>>
  /\ ended = {}
  /\ consumed = {}
  /\ produced = {}
  /\ calls = [s \in {"createVolume", "mkdirs", "upload"} |-> 0]
  /\ committed = [extracted |-> FALSE, written |-> {}, synced |-> {},
                  wsOut |-> Absent(OutNames), wsOther |-> Absent(OtherNames)]
  /\ store0 = Store
  /\ ws0 = [out |-> wsOut, other |-> wsOther]
  /\ prepRuns = 0
  /\ prepSnap = Store
  /\ dfIn = NoFrames
  /\ dfOut = NoFrames

----------------------------------------------------------------------------
\* src/main.py

\* subprocess.run([PYTHON, "src/pyspark.py"], check=True), either branch of MODE
Launch ==
  /\ launcher = "start"
  /\ launcher' = "running"
  /\ pc' = "CreateVolume"
  /\ UNCHANGED <<folderIdx, syncIdx, env, df, vol, ws, hist, prep>>

\* (mutant) check=False: the return code is ignored
LauncherResultUnchecked(exitPc) == "ok"

\* subprocess.run(..., check=True): a non-zero return code raises
\* CalledProcessError, which nothing catches
LauncherResult(exitPc) == IF exitPc = "Exit0" THEN "ok" ELSE "error"

Exited == {"Exit0", "Crashed", "Killed"}

LauncherReturn ==
  /\ launcher = "running"
  /\ pc \in Exited
  /\ launcher' = LauncherResult(pc)
  /\ UNCHANGED <<pc, folderIdx, syncIdx, env, df, vol, ws, hist, prep>>

\* The script is cancelled from outside while it runs.
Kill ==
  /\ launcher = "running"
  /\ pc \notin Exited
  /\ pc' = "Killed"
  /\ UNCHANGED <<folderIdx, syncIdx, launcher, env, df, vol, ws, hist, prep>>

----------------------------------------------------------------------------
\* Step 1: Storage Preparer

\* An exception no handler of the script catches ends it with a traceback.
Uncaught == "Crashed"

\* spark.sql("CREATE VOLUME IF NOT EXISTS ..."): an existing volume is no error
CreateVolumeRaises(exists, denied) == denied

\* (mutant) the folder is created afresh, dropping what it held
MkdirsRecreate(st, f) ==
  [st EXCEPT !.folder[f] = TRUE,
             !.inputFiles = IF f = "input" THEN {} ELSE @,
             !.outVol = IF f = "output" THEN NoFiles(OutNames) ELSE @,
             !.otherVol = IF f = "other" THEN NoFiles(OtherNames) ELSE @]

\* dbutils.fs.mkdirs(folder): creates the folder if absent, keeps what is there
Mkdirs(st, f) == [st EXCEPT !.folder[f] = TRUE]

MkdirsRaises(exists, denied) == denied

CreateVolume(Denials) ==
  /\ pc = "CreateVolume"
  /\ \E denied \in Denials :
       LET raises == CreateVolumeRaises(volume, denied) IN
       /\ calls' = [calls EXCEPT !["createVolume"] = @ + 1]
       /\ stageLog' = Entered(stageLog, "Preparer")
       /\ volume' = (volume \/ ~raises)
       /\ pc' = IF raises THEN Uncaught ELSE "Mkdirs"
       /\ folderIdx' = IF raises THEN folderIdx ELSE 1
       /\ ended' = IF raises THEN EndRecord("Preparer", "fail") ELSE ended
       /\ markers' = IF raises THEN EndMarkers("Preparer", "fail") ELSE markers
  /\ UNCHANGED <<syncIdx, launcher, env, df, folder, inputFiles, shadowCsv, outVol,
                 otherVol, ws, consumed, produced, committed, store0, ws0, prep>>

MkdirsLoop(Denials) ==
  /\ pc = "Mkdirs"
  /\ \E denied \in Denials :
       LET f == Folders[folderIdx]
           raises == MkdirsRaises(folder[f], denied)
           last == folderIdx = Len(Folders)
       IN
       /\ calls' = [calls EXCEPT !["mkdirs"] = @ + 1]
       /\ SetStore(IF raises THEN Store ELSE Mkdirs(Store, f))
       /\ pc' = IF raises THEN Uncaught ELSE IF last THEN "Extract" ELSE "Mkdirs"
       /\ folderIdx' = IF raises \/ last THEN folderIdx ELSE folderIdx + 1
       /\ ended' = IF raises THEN EndRecord("Preparer", "fail")
                   ELSE IF last THEN EndRecord("Preparer", "ok") ELSE ended
       /\ markers' = IF raises THEN EndMarkers("Preparer", "fail")
                     ELSE IF last THEN EndMarkers("Preparer", "ok") ELSE markers
       /\ produced' = IF raises THEN produced ELSE produced \cup {f}
       /\ prepRuns' = IF ~raises /\ last THEN prepRuns + 1 ELSE prepRuns
       /\ prepSnap' = IF ~raises /\ last /\ prepRuns = 0 THEN Mkdirs(Store, f)
                     ELSE prepSnap
  /\ UNCHANGED <<syncIdx, launcher, env, df, shadowCsv, ws, stageLog, consumed,
                 committed, store0, ws0>>

\* The script is run again on the storage the Preparer left: Step 1 once more.
PrepAgain ==
  /\ pc = "Extract"
  /\ prepRuns < MaxPrepRuns
  /\ pc' = "CreateVolume"
  /\ folderIdx' = 0
  /\ UNCHANGED <<syncIdx, launcher, env, df, vol, ws, hist, prep>>

----------------------------------------------------------------------------
\* Step 2: Extractor (the data bridge)

\* os.makedirs(dirname(target), exist_ok=True); shutil.copy(source, target)
CopyRaises(sourceExists, denied) == ~sourceExists \/ denied

Extract ==
  /\ pc = "Extract"
  /\ \E denied \in BOOLEAN :
       LET ok == ~CopyRaises(localSource, denied) IN
       /\ inputFiles' = IF ok /\ mounted THEN inputFiles \cup {CsvFile} ELSE inputFiles
       /\ shadowCsv' = (shadowCsv \/ (ok /\ ~mounted))
       /\ produced' = IF ok THEN produced \cup {CsvFile} ELSE produced
       /\ committed' = [committed EXCEPT !.extracted = ok /\ mounted]
       /\ markers' = EndMarkers("Extractor", IF ok THEN "ok" ELSE "fail")
       /\ ended' = EndRecord("Extractor", IF ok THEN "ok" ELSE "fail")
  /\ consumed' = consumed \cup {LocalSource}
  /\ stageLog' = Entered(stageLog, "Extractor")
  /\ pc' = "ReadCsv"
  /\ UNCHANGED <<folderIdx, syncIdx, launcher, env, df, volume, folder, outVol, otherVol,
                 ws, calls, store0, ws0, prep>>

----------------------------------------------------------------------------
\* Steps 3-5: reads of the input volume

\* spark.read...csv(path) / .json(path): a path that does not exist raises
SparkReadRaises(files, name) == name \notin files

ReadStep(here, name, next) ==
  /\ pc = here
  /\ consumed' = consumed \cup {name}
  /\ stageLog' = Entered(stageLog, "Transformer")
  /\ LET raises == SparkReadRaises(inputFiles, name) IN
       /\ pc' = IF raises THEN Uncaught ELSE next
       /\ ended' = IF raises THEN EndRecord("Transformer", "fail") ELSE ended
       /\ markers' = IF raises THEN EndMarkers("Transformer", "fail") ELSE markers
  /\ UNCHANGED <<folderIdx, syncIdx, launcher, env, df, vol, ws, produced, calls,
                 committed, store0, ws0, prep>>

\* flight_df_1, inferSchema
ReadCsv == ReadStep("ReadCsv", CsvFile, "ReadCsvSchema")

\* flight_df_2, my_schema, PERMISSIVE
ReadCsvSchema == ReadStep("ReadCsvSchema", CsvFile, "ReadJson")

\* people_df
ReadJson == ReadStep("ReadJson", JsonFile, "WriteParquet")

----------------------------------------------------------------------------
\* Steps 6-8: Spark writes to OUTPUT_VOL, mode("overwrite")

\* A write that succeeds replaces what was at its path.
SparkWrite(out, name) == [out EXCEPT ![name] = "run"]

\* (mutant) the overwrite is aimed at OUTPUT_VOL itself: a failed write has
\* deleted the sibling trees too
FailedWriteAtRoot(out, name) ==
  { [n \in DOMAIN out |-> IF n = name THEN t ELSE "none"] : t \in {"none", "part"} }

\* A write that fails may have failed before touching its path, after
\* deleting the old data, or with part of the new data written.
FailedWrite(out, name) == { [out EXCEPT ![name] = t] : t \in {out[name], "none", "part"} }

WriteStep(here, unit, name, next, endsUnit) ==
  /\ pc = here
  /\ stageLog' = Entered(stageLog, unit)
  /\ \E ok \in BOOLEAN :
       /\ IF ok THEN outVol' = SparkWrite(outVol, name)
                ELSE outVol' \in FailedWrite(outVol, name)
       /\ pc' = IF ok THEN next ELSE Uncaught
       /\ produced' = IF ok THEN produced \cup {name} ELSE produced
       /\ committed' = IF ok THEN [committed EXCEPT !.written = @ \cup {name}] ELSE committed
       /\ ended' = IF ~ok THEN EndRecord(unit, "fail")
                   ELSE IF endsUnit THEN EndRecord(unit, "ok") ELSE ended
       /\ markers' = IF ~ok THEN EndMarkers(unit, "fail")
                     ELSE IF endsUnit THEN EndMarkers(unit, "ok") ELSE markers
  /\ UNCHANGED <<folderIdx, syncIdx, launcher, env, df, volume, folder, inputFiles,
                 shadowCsv, otherVol, ws, consumed, calls, store0, ws0, prep>>

\* flight_df_1.write.mode("overwrite").parquet(PARQUET_PATH)
WriteParquet == WriteStep("WriteParquet", "WriteParquet", "parquet_data", "ReadParquet", FALSE)

\* parquet_df = spark.read.parquet(PARQUET_PATH); parquet_df.show()
ReadParquet ==
  /\ pc = "ReadParquet"
  /\ consumed' = consumed \cup {"parquet_data"}
  /\ LET raises == outVol["parquet_data"] \notin {"prev", "run"} IN
       /\ pc' = IF raises THEN Uncaught ELSE "WriteCsv"
       /\ ended' = EndRecord("WriteParquet", IF raises THEN "fail" ELSE "ok")
       /\ markers' = EndMarkers("WriteParquet", IF raises THEN "fail" ELSE "ok")
  /\ UNCHANGED <<folderIdx, syncIdx, launcher, env, df, vol, ws, stageLog, produced,
                 calls, committed, store0, ws0, prep>>

\* parquet_df.write.mode("overwrite").option("header", "true").csv(CSV_OUT)
WriteCsv == WriteStep("WriteCsv", "WriteCsv", "csv_output", "WritePartitioned", TRUE)

\* parquet_df.write...partitionBy("COUNTRY_1").csv(PARTITION_OUT)
WritePartitioned ==
  WriteStep("WritePartitioned", "WritePartitioned", "partitioned_csv", "Transform", TRUE)

----------------------------------------------------------------------------
\* Step 9: the DataFrame transformations (in memory, nothing is stored)

Transform ==
  /\ pc = "Transform"
  /\ stageLog' = Entered(stageLog, "Transformer")
  /\ \E ok \in BOOLEAN :
       /\ pc' = IF ok THEN "SyncCheck" ELSE Uncaught
       /\ ended' = EndRecord("Transformer", IF ok THEN "ok" ELSE "fail")
       /\ markers' = EndMarkers("Transformer", IF ok THEN "ok" ELSE "fail")
  /\ syncIdx' = 1
  /\ UNCHANGED <<folderIdx, launcher, env, df, vol, ws, consumed, produced, calls,
                 committed, store0, ws0, prep>>

----------------------------------------------------------------------------
\* Step 10: sync_back_to_workspace(volume_src, workspace_dest), called for
\* (OUTPUT_VOL, workspace_output_target) and (OTHER_VOL, workspace_other_target)

SyncFolder == IF syncIdx = 1 THEN "output" ELSE "other"

SyncSrc == IF syncIdx = 1 THEN outVol ELSE otherVol

SyncDest == IF syncIdx = 1 THEN wsOut ELSE wsOther

SetDest(t) ==
  IF syncIdx = 1 THEN wsOut' = t /\ UNCHANGED wsOther
  ELSE wsOther' = t /\ UNCHANGED wsOut

\* (mutant) the source is taken to exist without looking
SrcExistsUnchecked == TRUE

\* os.path.exists(volume_src)
SrcExists == mounted /\ folder[SyncFolder]

\* shutil.rmtree removes the entries one by one and the directory last.
RemoveOne(t, f) == [t EXCEPT !.files[f] = "none"]

RemoveDir(t) == [t EXCEPT !.exists = FALSE]

RmtreeSteps(t) ==
  IF Present(t.files) = {} THEN {RemoveDir(t)}
  ELSE {RemoveOne(t, f) : f \in Present(t.files)}

\* shutil.copytree creates the destination (which must not exist) and copies
\* the entries one by one.
MakeDest(t) == [t EXCEPT !.exists = TRUE]

\* (mutant) the copy of an entry is cut short
CopyOneTruncated(t, src, f) == [t EXCEPT !.files[f] = "part"]

CopyOne(t, src, f) == [t EXCEPT !.files[f] = src[f]]

ToCopy(t, src) == {f \in Present(src) : t.files[f] = "none"}

CopySteps(t, src) ==
  IF ToCopy(t, src) = {} THEN {t}
  ELSE {CopyOne(t, src, f) : f \in ToCopy(t, src)}

\* except Exception as e: print(...)  -- the destination stays as it is
SyncExcept(t) == t

\* After a call returns: the second call, then the Publisher.
AfterSync(i) == IF i = 1 THEN "SyncCheck" ELSE "Upload"

\* The call ends with `outcome` and the destination `t`.
SyncReturn(outcome, t) ==
  /\ SetDest(t)
  /\ pc' = AfterSync(syncIdx)
  /\ syncIdx' = IF syncIdx = 1 THEN 2 ELSE syncIdx
  /\ markers' = EndMarkers(SyncUnit(syncIdx), outcome)
  /\ ended' = EndRecord(SyncUnit(syncIdx), outcome)
  /\ committed' =
       IF outcome # "ok" THEN committed
       ELSE [committed EXCEPT !.synced = @ \cup {syncIdx},
                              !.wsOut = IF syncIdx = 1 THEN t ELSE @,
                              !.wsOther = IF syncIdx = 2 THEN t ELSE @]

\* The call goes on at `next` with the destination `t`.
SyncGoto(next, t) ==
  /\ SetDest(t)
  /\ pc' = next
  /\ UNCHANGED <<syncIdx, markers, ended, committed>>

\* if os.path.exists(volume_src): ... else: print("Source Volume folder not found")
SyncCheck ==
  /\ pc = "SyncCheck"
  /\ stageLog' = Entered(stageLog, SyncUnit(syncIdx))
  /\ consumed' = consumed \cup {SyncFolder}
  /\ IF SrcExists THEN SyncGoto("SyncClear", SyncDest)
     ELSE SyncReturn("notfound", SyncDest)
  /\ UNCHANGED <<folderIdx, launcher, env, df, vol, produced, calls, store0, ws0, prep>>

\* if os.path.exists(workspace_dest):
SyncClear ==
  /\ pc = "SyncClear"
  /\ SyncGoto(IF SyncDest.exists THEN "SyncRmtree" ELSE "SyncMakedirs", SyncDest)
  /\ UNCHANGED <<folderIdx, launcher, env, df, vol, stageLog, consumed, produced,
                 calls, store0, ws0, prep>>

\* shutil.rmtree(workspace_dest)
SyncRmtree ==
  /\ pc = "SyncRmtree"
  /\ \E denied \in BOOLEAN : \E t \in RmtreeSteps(SyncDest) :
       IF denied THEN SyncReturn("fail", SyncExcept(SyncDest))
       ELSE SyncGoto(IF t.exists THEN "SyncRmtree" ELSE "SyncMakedirs", t)
  /\ UNCHANGED <<folderIdx, launcher, env, df, vol, stageLog, consumed, produced,
                 calls, store0, ws0, prep>>

\* os.makedirs(os.path.dirname(workspace_dest), exist_ok=True)
SyncMakedirs ==
  /\ pc = "SyncMakedirs"
  /\ \E denied \in BOOLEAN :
       IF denied THEN SyncReturn("fail", SyncExcept(SyncDest))
       ELSE SyncGoto("SyncCopytree", SyncDest)
  /\ UNCHANGED <<folderIdx, launcher, env, df, vol, stageLog, consumed, produced,
                 calls, store0, ws0, prep>>

\* shutil.copytree(volume_src, workspace_dest): os.makedirs(dst)
SyncCopytree ==
  /\ pc = "SyncCopytree"
  /\ \E denied \in BOOLEAN :
       IF denied \/ SyncDest.exists THEN SyncReturn("fail", SyncExcept(SyncDest))
       ELSE SyncGoto("SyncCopy", MakeDest(SyncDest))
  /\ UNCHANGED <<folderIdx, launcher, env, df, vol, stageLog, consumed, produced,
                 calls, store0, ws0, prep>>

\* shutil.copytree: the copies; print("Synced back to Workspace") after the last
SyncCopy ==
  /\ pc = "SyncCopy"
  /\ \E denied \in BOOLEAN : \E t \in CopySteps(SyncDest, SyncSrc) :
       IF ToCopy(SyncDest, SyncSrc) = {} THEN SyncReturn("ok", SyncDest)
       ELSE IF denied THEN SyncReturn("fail", SyncExcept(SyncDest))
       ELSE SyncGoto("SyncCopy", t)
  /\ UNCHANGED <<folderIdx, launcher, env, df, vol, stageLog, consumed, produced,
                 calls, store0, ws0, prep>>

----------------------------------------------------------------------------
\* Step 11: Publisher

\* s3.upload_file(local_file, bucket, key, ExtraArgs=...): raises when the
\* local file is missing or the service refuses
UploadRaises(fileExists, denied) == ~fileExists \/ denied

\* (mutant) the upload error is caught and the script ends normally
OnUploadErrorSwallowed == "Exit0"

\* upload_to_s3 has no handler and is called at module level
OnUploadError == Uncaught

Upload ==
  /\ pc = "Upload"
  /\ stageLog' = Entered(stageLog, "Publisher")
  /\ consumed' = consumed \cup {ResultCsv}
  /\ calls' = [calls EXCEPT !["upload"] = @ + 1]
  /\ \E denied \in BOOLEAN :
       LET raises == UploadRaises(resultCsv, denied) IN
       /\ pc' = IF raises THEN OnUploadError ELSE "Exit0"
       /\ ended' = EndRecord("Publisher", IF raises THEN "fail" ELSE "ok")
       /\ markers' = EndMarkers("Publisher", IF raises THEN "fail" ELSE "ok")
  /\ UNCHANGED <<folderIdx, syncIdx, launcher, env, df, vol, ws, produced, committed,
                 store0, ws0, prep>>

----------------------------------------------------------------------------
Next ==
  \/ Launch
  \/ LauncherReturn
  \/ Kill
  \/ CreateVolume(BOOLEAN)
  \/ MkdirsLoop(BOOLEAN)
  \/ Extract
  \/ ReadCsv
  \/ ReadCsvSchema
  \/ ReadJson
  \/ WriteParquet
  \/ ReadParquet
  \/ WriteCsv
  \/ WritePartitioned
  \/ Transform
  \/ SyncCheck
  \/ SyncClear
  \/ SyncRmtree
  \/ SyncMakedirs
  \/ SyncCopytree
  \/ SyncCopy
  \/ Upload

Spec == Init /\ [][Next]_vars

\* The Storage Preparer alone, on storage that can be written, run
\* MaxPrepRuns times from every initial storage state.
NextPrep ==
  \/ Launch
  \/ CreateVolume({FALSE})
  \/ MkdirsLoop({FALSE})
  \/ PrepAgain

SpecPrep == Init /\ [][NextPrep]_vars

----------------------------------------------------------------------------
\* Step 9, the DataFrame operations.  A DataFrame is a sequence of rows, a
\* row a record of its columns (columns an operation never looks at are left
\* out), a nullable value is Null or Val(v).

\* Rows a bounded table may hold.
MaxRows == 2

\* Largest customer_id of a bounded table.
MaxKey == 2

Null == <<>>

Val(v) == <<v>>

IsNull(x) == x = Null

SeqsUpTo(S, n) == UNION { [1..k -> S] : k \in 0..n }

\* Column == Column and the other comparisons: null when either side is null
EqCol(a, b) == IF IsNull(a) \/ IsNull(b) THEN Null ELSE Val(a[1] = b[1])

GtCol(a, b) == IF IsNull(a) \/ IsNull(b) THEN Null ELSE Val(a[1] > b[1])

LtCol(a, b) == IF IsNull(a) \/ IsNull(b) THEN Null ELSE Val(a[1] < b[1])

\* Column & Column: false wins over null
AndCol(a, b) ==
  IF a = Val(FALSE) \/ b = Val(FALSE) THEN Val(FALSE)
  ELSE IF IsNull(a) \/ IsNull(b) THEN Null
  ELSE Val(TRUE)

\* (mutant) a null condition counts as true
HoldsUnlessFalse(c) == c # Val(FALSE)

\* A row passes a filter, a join condition or a when-branch only when the
\* condition is true: null counts as not true.
Holds(c) == c = Val(TRUE)

----------------------------------------------------------------------------
\* Step 9.4 and Step 9.6: union, unionAll, unionByName, distinct and
\* dropDuplicates.  Here a table carries its column names, and a row is the
\* tuple of its values in the order of the columns.

\* Rows the second table of a bounded union may hold.
MaxUnionRows == 1

\* data / schema of manager_df_1
ManagerData1 ==
  [cols |-> <<"id", "name", "sal", "mngr_id">>,
   rows |-> << <<10, "Anil", 50000, 18>>, <<11, "Vikas", 75000, 16>>,
               <<12, "Nisha", 40000, 18>>, <<13, "Nidhi", 60000, 17>>,
               <<14, "Priya", 80000, 18>>, <<15, "Mohit", 45000, 18>>,
               <<16, "Rajesh", 90000, 10>>, <<17, "Raman", 55000, 16>>,
               <<18, "Sam", 65000, 17>>, <<18, "Sam", 65000, 17>> >>]

\* data1 / schema1 of manager_df_2
ManagerData2 ==
  [cols |-> <<"id", "name", "sal", "mngr_id">>,
   rows |-> << <<19, "Sohan", 50000, 18>>, <<20, "Sima", 75000, 17>> >>]

\* data / schema of mngr_df
MngrData ==
  [cols |-> <<"id", "name", "sal", "mngr_id">>,
   rows |-> << <<10, "Anil", 50000, 18>>, <<11, "Vikas", 75000, 16>>,
               <<12, "Nisha", 40000, 18>>, <<13, "Nidhi", 60000, 17>>,
               <<14, "Priya", 80000, 18>>, <<15, "Mohit", 45000, 18>>,
               <<16, "Rajesh", 90000, 10>>, <<17, "Raman", 55000, 16>>,
               <<18, "Sam", 65000, 17>>, <<15, "Mohit", 45000, 18>>,
               <<13, "Nidhi", 60000, 17>>, <<14, "Priya", 90000, 18>>,
               <<18, "Sam", 65000, 17>> >>]

ColIndex(cols, name) == CHOOSE k \in 1..Len(cols) : cols[k] = name

\* the values of a row in the columns subset, in that order
Project(cols, row, subset) == [k \in 1..Len(subset) |-> row[ColIndex(cols, subset[k])]]

\* dropDuplicates(subset): one row for every combination of values in the
\* columns subset (here the first such row)
RECURSIVE KeepFirst(_, _, _)
KeepFirst(cols, rows, subset) ==
  IF rows = <<>> THEN <<>>
  ELSE LET r == rows[Len(rows)]
           before == SubSeq(rows, 1, Len(rows) - 1)
       IN IF \E k \in 1..Len(before) :
               Project(cols, before[k], subset) = Project(cols, r, subset)
          THEN KeepFirst(cols, before, subset)
          ELSE Append(KeepFirst(cols, before, subset), r)

DropDuplicates(t, subset) == [cols |-> t.cols, rows |-> KeepFirst(t.cols, t.rows, subset)]

\* distinct(): duplicates over all the columns are dropped
Distinct(t) == DropDuplicates(t, t.cols)

\* (mutant) UNION of Spark SQL: the result holds no row twice
UnionDeduplicated(A, B) == Distinct([cols |-> A.cols, rows |-> A.rows \o B.rows])

\* A.union(B): the rows of A, then those of B, column by position
Union(A, B) == [cols |-> A.cols, rows |-> A.rows \o B.rows]

\* A.unionAll(B): an alias of union
UnionAll(A, B) == Union(A, B)

\* A.unionByName(B): the values of every row of B are put under the columns
\* of A that bear the same names
UnionByName(A, B) ==
  [cols |-> A.cols,
   rows |-> A.rows \o [j \in 1..Len(B.rows) |-> Project(B.cols, B.rows[j], A.cols)]]

UnionFrames(in) ==
  [kind |-> "union",
   manager_df_union       |-> Union(in.manager_df_1, in.manager_df_2),
   manager_df_unionAll    |-> UnionAll(in.manager_df_1, in.manager_df_2),
   manager_df_unionByName |-> UnionByName(in.manager_df_1, in.manager_df_2),
   mngr_df_1              |-> Distinct(in.mngr_df),
   mngr_df_3              |-> DropDuplicates(in.mngr_df, <<"id", "name", "sal", "mngr_id">>)]

\* Bounded tables have the columns id, name, sal and mngr_id with the last
\* two always 0, so that a row is told by <<id, name>>.
BoundedRows == { <<i, n, 0, 0>> : i \in 1..MaxKey, n \in 1..MaxKey }

BoundedCols == { <<"id", "name", "sal", "mngr_id">>, <<"name", "id", "sal", "mngr_id">> }

UnionInputs ==
  { [kind |-> "union",
     manager_df_1 |-> [cols |-> <<"id", "name", "sal", "mngr_id">>, rows |-> a],
     manager_df_2 |-> [cols |-> c, rows |-> b],
     mngr_df      |-> [cols |-> <<"id", "name", "sal", "mngr_id">>, rows |-> a]] :
      a \in SeqsUpTo(BoundedRows, MaxRows),
      b \in SeqsUpTo(BoundedRows, MaxUnionRows),
      c \in BoundedCols }

ScriptUnionInput ==
  [kind |-> "union", manager_df_1 |-> ManagerData1, manager_df_2 |-> ManagerData2,
   mngr_df |-> MngrData]

ApplyUnion ==
  /\ dfIn.kind = "union"
  /\ dfOut = NoFrames
  /\ dfOut' = UnionFrames(dfIn)
  /\ UNCHANGED <<ctl, env, vol, ws, hist, prep, dfIn>>

----------------------------------------------------------------------------
\* Step 9.5: when / otherwise

\* Largest age of a bounded emp_df.
MaxAge == 31

\* emp_data: age
EmpData ==
  << [age |-> Val(26)], [age |-> Null], [age |-> Val(12)], [age |-> Val(44)],
     [age |-> Val(35)], [age |-> Val(29)], [age |-> Val(37)], [age |-> Val(16)],
     [age |-> Null], [age |-> Val(37)] >>

\* when(c1, v1).when(c2, v2)...otherwise(v): the value of the first branch,
\* top to bottom, whose condition holds; the otherwise value when none does
CaseWhen(branches, other) ==
  LET hit == { k \in 1..Len(branches) : Holds(branches[k].cond) }
  IN IF hit = {} THEN other
     ELSE branches[CHOOSE k \in hit : \A h \in hit : k <= h].value

\* when(col("age").isNull(), None).when(col("age") > 18, "Yes").otherwise("No")
IsAdult1(age) ==
  CaseWhen(<< [cond |-> Val(IsNull(age)), value |-> Null],
              [cond |-> GtCol(age, Val(18)), value |-> Val("Yes")] >>,
           Val("No"))

\* when((col("age")>0) & (col("age")<18), "minor")
\* .when((col("age")>18) & (col("age")<30), "medium").otherwise("major")
IsAdult2(age) ==
  CaseWhen(<< [cond  |-> AndCol(GtCol(age, Val(0)), LtCol(age, Val(18))),
               value |-> Val("minor")],
              [cond  |-> AndCol(GtCol(age, Val(18)), LtCol(age, Val(30))),
               value |-> Val("medium")] >>,
           Val("major"))

\* emp_df.withColumn("is_adult", ...): every row with the new column
WithIsAdult1(emp) ==
  [i \in 1..Len(emp) |-> [age |-> emp[i].age, is_adult |-> IsAdult1(emp[i].age)]]

WithIsAdult2(emp) ==
  [i \in 1..Len(emp) |-> [age |-> emp[i].age, is_adult |-> IsAdult2(emp[i].age)]]

EmpRows == [age : {Null} \cup { Val(a) : a \in -1..MaxAge }]

CaseInputs == { [kind |-> "case", emp |-> e] : e \in SeqsUpTo(EmpRows, MaxRows) }

ScriptCaseInput == [kind |-> "case", emp |-> EmpData]

ApplyCase ==
  /\ dfIn.kind = "case"
  /\ dfOut = NoFrames
  /\ dfOut' = [kind |-> "case", emp_df_1 |-> WithIsAdult1(dfIn.emp),
               emp_df_2 |-> WithIsAdult2(dfIn.emp)]
  /\ UNCHANGED <<ctl, env, vol, ws, hist, prep, dfIn>>

----------------------------------------------------------------------------
\* Step 9.9: joins of customer_df (left) and sales_df (right).  A joined
\* table is written as a function from row identities <<i, j>> (row i of the
\* left table with row j of the right one, NoRow for the side that found no
\* partner) to the joined rows.

NoRow == 0

\* customer_data
CustomerData ==
  [i \in 1..10 |-> [customer_id |-> Val(i)]]

\* sales_data: customer_id, product_id
SalesData ==
  << [customer_id |-> Val(1), product_id |-> Val(22)],
     [customer_id |-> Val(1), product_id |-> Val(27)],
     [customer_id |-> Val(2), product_id |-> Val(5)],
     [customer_id |-> Val(5), product_id |-> Val(22)],
     [customer_id |-> Val(7), product_id |-> Val(22)],
     [customer_id |-> Val(9), product_id |-> Val(5)],
     [customer_id |-> Val(2), product_id |-> Val(1)],
     [customer_id |-> Val(1), product_id |-> Val(56)],
     [customer_id |-> Val(5), product_id |-> Val(12)],
     [customer_id |-> Val(11), product_id |-> Val(12)] >>

\* customer_df.customer_id == sales_df.customer_id
JoinCond(l, r) == EqCol(l.customer_id, r.customer_id)

Matched(L, R) ==
  { p \in (1..Len(L)) \X (1..Len(R)) : Holds(JoinCond(L[p[1]], R[p[2]])) }

\* (mutant) a left row without a partner is dropped
LeftOnlyDropped(L, R) == {}

\* the left rows no right row matches, each paired with no row
LeftOnly(L, R) ==
  { <<i, NoRow>> : i \in { k \in 1..Len(L) : \A j \in 1..Len(R) : <<k, j>> \notin Matched(L, R) } }

RightOnly(L, R) ==
  { <<NoRow, j>> : j \in { k \in 1..Len(R) : \A i \in 1..Len(L) : <<i, k>> \notin Matched(L, R) } }

\* the columns of both sides; those of a missing side are null
JoinedRow(L, R, p) ==
  [customer_id   |-> IF p[1] = NoRow THEN Null ELSE L[p[1]].customer_id,
   s_customer_id |-> IF p[2] = NoRow THEN Null ELSE R[p[2]].customer_id,
   product_id    |-> IF p[2] = NoRow THEN Null ELSE R[p[2]].product_id]

Joined(L, R, ids) == [p \in ids |-> JoinedRow(L, R, p)]

InnerJoin(L, R) == Joined(L, R, Matched(L, R))

LeftJoin(L, R) == Joined(L, R, Matched(L, R) \cup LeftOnly(L, R))

RightJoin(L, R) == Joined(L, R, Matched(L, R) \cup RightOnly(L, R))

OuterJoin(L, R) ==
  Joined(L, R, Matched(L, R) \cup LeftOnly(L, R) \cup RightOnly(L, R))

CrossJoin(L, R) == Joined(L, R, (1..Len(L)) \X (1..Len(R)))

\* col("product_id").asc(): nulls first, then ascending
ProductBefore(a, b) == IsNull(a) \/ (~IsNull(b) /\ a[1] <= b[1])

\* .select(sales_df.product_id).sort(col("product_id").asc()): the
\* product_id of every joined row, in ascending order
RECURSIVE SelectSorted(_)
SelectSorted(t) ==
  IF DOMAIN t = {} THEN <<>>
  ELSE LET p == CHOOSE q \in DOMAIN t :
                  \A o \in DOMAIN t : ProductBefore(t[q].product_id, t[o].product_id)
       IN <<t[p].product_id>> \o SelectSorted([o \in DOMAIN t \ {p} |-> t[o]])

JoinFrames(L, R) ==
  [kind  |-> "join",
   inner |-> InnerJoin(L, R),
   left  |-> LeftJoin(L, R),
   right |-> RightJoin(L, R),
   outer |-> OuterJoin(L, R),
   cross |-> CrossJoin(L, R),
   shown |-> [inner |-> SelectSorted(InnerJoin(L, R)),
              left  |-> SelectSorted(LeftJoin(L, R)),
              right |-> SelectSorted(RightJoin(L, R)),
              outer |-> SelectSorted(OuterJoin(L, R))]]

Keys == {Null} \cup { Val(k) : k \in 1..MaxKey }

CustomerRows == [customer_id : Keys]

SalesRows == [customer_id : Keys, product_id : {Null, Val(5)}]

JoinInputs ==
  { [kind |-> "join", customer |-> L, sales |-> R] :
      L \in SeqsUpTo(CustomerRows, MaxRows), R \in SeqsUpTo(SalesRows, MaxRows) }

ScriptJoinInput == [kind |-> "join", customer |-> CustomerData, sales |-> SalesData]

ApplyJoins ==
  /\ dfIn.kind = "join"
  /\ dfOut = NoFrames
  /\ dfOut' = JoinFrames(dfIn.customer, dfIn.sales)
  /\ UNCHANGED <<ctl, env, vol, ws, hist, prep, dfIn>>

----------------------------------------------------------------------------
\* Step 9.10: window functions over
\* Window.partitionBy("department").orderBy(col("salary").desc())

\* Rows a bounded e_df may hold.
MaxWinRows == 4

\* Largest salary of a bounded e_df.
MaxSalary == 2

\* Rows of the longest one-department e_df of distinct salaries.
MaxPartition == 8

\* ntile(3)
NtileBuckets == 3

\* e_data: department, salary
EData ==
  << [department |-> "IT", salary |-> 50000],
     [department |-> "sales", salary |-> 60000],
     [department |-> "marketing", salary |-> 70000],
     [department |-> "IT", salary |-> 80000],
     [department |-> "sales", salary |-> 90000],
     [department |-> "marketing", salary |-> 45000],
     [department |-> "marketing", salary |-> 55000],
     [department |-> "IT", salary |-> 100000],
     [department |-> "IT", salary |-> 65000],
     [department |-> "marketing", salary |-> 50000],
     [department |-> "IT", salary |-> 50000],
     [department |-> "sales", salary |-> 90000] >>

Departments(rows) == { rows[i].department : i \in 1..Len(rows) }

\* partitionBy("department"): the rows (by index) of one department
Partition(rows, d) == { i \in 1..Len(rows) : rows[i].department = d }

\* orderBy(col("salary").desc()): every order of the rows idx in which the
\* salary never rises; rows of equal salary come in any order
RECURSIVE SortedOrders(_, _)
SortedOrders(rows, idx) ==
  IF idx = {} THEN {<<>>}
  ELSE UNION { { <<m>> \o rest : rest \in SortedOrders(rows, idx \ {m}) } :
                 m \in { i \in idx : \A j \in idx : rows[i].salary >= rows[j].salary } }

WindowOrders(rows) ==
  { ord \in [Departments(rows) ->
               UNION { SortedOrders(rows, Partition(rows, d)) : d \in Departments(rows) }] :
      \A d \in Departments(rows) : ord[d] \in SortedOrders(rows, Partition(rows, d)) }

\* row_number(): the position in the ordered partition
RowNumber(sal) == [k \in 1..Len(sal) |-> k]

\* dense_rank(): one more at every row whose salary differs from the one before
DenseRank(sal) ==
  LET r[k \in 1..Len(sal)] ==
        IF k = 1 THEN 1
        ELSE IF sal[k] = sal[k - 1] THEN r[k - 1]
        ELSE r[k - 1] + 1
  IN r

\* (mutant) rank without gaps
RankNoGaps(sal) == DenseRank(sal)

\* rank(): the row number of the first row of the run of equal salaries
Rank(sal) ==
  LET r[k \in 1..Len(sal)] ==
        IF k = 1 THEN 1
        ELSE IF sal[k] = sal[k - 1] THEN r[k - 1]
        ELSE k
  IN r

\* (mutant) no bucket gets an extra row
PaddingNone(bucket, padded) == 0

\* the first n % buckets buckets hold one row more
Padding(bucket, padded) == IF bucket < padded THEN 1 ELSE 0

\* ntile(buckets) over a partition of n rows: bucket and bucketThreshold are
\* carried from row to row; a row whose number (from 0) has reached the
\* threshold opens the next bucket, of n \div buckets rows plus the padding.
Ntile(n, buckets) ==
  LET t[k \in 0..n] ==
        IF k = 0 THEN [bucket |-> 0, threshold |-> 0]
        ELSE IF k - 1 >= t[k - 1].threshold
             THEN [bucket    |-> t[k - 1].bucket + 1,
                   threshold |-> t[k - 1].threshold + (n \div buckets)
                                   + Padding(t[k - 1].bucket, n % buckets)]
             ELSE t[k - 1]
  IN [k \in 1..n |-> t[k].bucket]

Position(ord, i) == CHOOSE k \in 1..Len(ord) : ord[k] = i

\* e_df.withColumn("row_number", ...).withColumn("rank", ...)
\*     .withColumn("dense_rank", ...).withColumn("ntile", ...)
\* with every partition ordered as ord says
WindowColumns(rows, ord) ==
  [i \in 1..Len(rows) |->
     LET o == ord[rows[i].department]
         sal == [k \in 1..Len(o) |-> rows[o[k]].salary]
         k == Position(o, i)
     IN [row_number |-> RowNumber(sal)[k],
         rank       |-> Rank(sal)[k],
         dense_rank |-> DenseRank(sal)[k],
         ntile      |-> Ntile(Len(sal), NtileBuckets)[k]]]

ERows == [department : {"IT", "sales"}, salary : 1..MaxSalary]

\* One department of n rows, every salary different
OneDepartment(n) == [i \in 1..n |-> [department |-> "IT", salary |-> i]]

WindowInputs ==
  { [kind |-> "window", rows |-> r] :
      r \in SeqsUpTo(ERows, MaxWinRows) \cup { OneDepartment(n) : n \in 1..MaxPartition } }

ScriptWindowInput == [kind |-> "window", rows |-> EData]

ApplyWindow ==
  /\ dfIn.kind = "window"
  /\ dfOut = NoFrames
  /\ \E ord \in WindowOrders(dfIn.rows) :
       dfOut' = [kind |-> "window", order |-> ord,
                 cols |-> WindowColumns(dfIn.rows, ord)]
  /\ UNCHANGED <<ctl, env, vol, ws, hist, prep, dfIn>>

----------------------------------------------------------------------------
\* The Step 9 operations on their own: every bounded input table, and the
\* tables the script builds, with the operation applied to it.  Nothing of
\* the pipeline runs.

Idle ==
  /\ pc = "NotStarted"
  /\ folderIdx = 0
  /\ syncIdx = 1
  /\ launcher = "start"
  /\ mounted = FALSE
  /\ localSource = FALSE
  /\ resultCsv = FALSE
  /\ volume = FALSE
  /\ folder = [f \in {"input", "output", "other"} |-> FALSE]
  /\ inputFiles = {}
  /\ shadowCsv = FALSE
  /\ outVol = NoFiles(OutNames)
  /\ otherVol = NoFiles(OtherNames)
  /\ wsOut = Absent(OutNames)
  /\ wsOther = Absent(OtherNames)
  /\ markers = {}
  /\ stageLog = <<>>
  /\ ended = {}
  /\ consumed = {}
  /\ produced = {}
  /\ calls = [s \in {"createVolume", "mkdirs", "upload"} |-> 0]
  /\ committed = [extracted |-> FALSE, written |-> {}, synced |-> {},
                  wsOut |-> Absent(OutNames), wsOther |-> Absent(OtherNames)]
  /\ store0 = Store
  /\ ws0 = [out |-> wsOut, other |-> wsOther]
  /\ prepRuns = 0
  /\ prepSnap = Store

InitJoin ==
  /\ Idle
  /\ dfIn \in JoinInputs \cup {ScriptJoinInput}
  /\ dfOut = NoFrames

SpecJoin == InitJoin /\ [][ApplyJoins]_vars

InitUnion ==
  /\ Idle
  /\ dfIn \in UnionInputs \cup {ScriptUnionInput}
  /\ dfOut = NoFrames

SpecUnion == InitUnion /\ [][ApplyUnion]_vars

InitCase ==
  /\ Idle
  /\ dfIn \in CaseInputs \cup {ScriptCaseInput}
  /\ dfOut = NoFrames

SpecCase == InitCase /\ [][ApplyCase]_vars

InitWindow ==
  /\ Idle
  /\ dfIn \in WindowInputs \cup {ScriptWindowInput}
  /\ dfOut = NoFrames

SpecWindow == InitWindow /\ [][ApplyWindow]_vars

----------------------------------------------------------------------------
\* Properties

StageOrder == <<"Preparer", "Extractor", "Transformer", "Loader", "Publisher">>

IsPrefix(a, b) == Len(a) <= Len(b) /\ \A i \in 1..Len(a) : a[i] = b[i]

Aborted == pc \in {"Crashed", "Killed"}

LoaderUnits == {"WriteParquet", "WriteCsv", "WritePartitioned", "Sync1", "Sync2"}

\* C1: every file or dataset a stage reads (the raw source of the Extractor
\* aside) was written by a stage that ran earlier in the same run; so the
\* read of INPUT_VOL/multiline.json follows a stage that placed it and the
\* upload of datasets/output/result.csv follows a Loader step that wrote it.
C1_NoForwardReferences == \A p \in consumed \ {LocalSource} : p \in produced

\* C2: the stages are entered in the order Storage Preparer, Extractor,
\* Transformer, Loader, Publisher, each at most once and none re-entered.
C2_StrictStageOrder == IsPrefix(stageLog, StageOrder)

\* A tree holds files of the prior workspace tree together with files copied
\* from the volume.
Mixed(t) ==
  /\ \E f \in DOMAIN t.files : t.files[f] = "ws"
  /\ \E g \in DOMAIN t.files : t.files[g] \notin {"none", "ws"}

\* C3: clear-then-copy. In every state during and after a sync, a caught
\* failure included, the destination never mixes prior files with new ones,
\* and after a successful sync the destination equals the source exactly.
C3_ClearThenCopy ==
  /\ ~Mixed(wsOut)
  /\ ~Mixed(wsOther)
  /\ <<"Sync1", "ok">> \in markers => wsOut = [exists |-> TRUE, files |-> outVol]
  /\ <<"Sync2", "ok">> \in markers => wsOther = [exists |-> TRUE, files |-> otherVol]

\* A sync whose copy failed partway over a prior tree that held files: the
\* prior tree is gone and part of the new one is there.
C3_Witness ==
  /\ <<"Sync1", "fail">> \in markers
  /\ Present(ws0.out.files) # {}
  /\ Present(wsOut.files) # {}
  /\ ToCopy(wsOut, outVol) # {}
  /\ \A f \in Present(wsOut.files) : wsOut.files[f] = "run"

\* The run stopped at a read of the CSV that is not in the input volume.
CsvReadAborted ==
  /\ pc = "Crashed"
  /\ <<"Transformer", "fail">> \in ended
  /\ CsvFile \notin inputFiles

\* C4: when the Extractor's source file is missing, the copy error is printed
\* and the run goes on: no later stage aborts because the data is absent.
C4_MissingSourceNotFatal ==
  (~localSource /\ <<"Extractor", "fail">> \in ended) =>
     /\ <<"Extractor", "fail">> \in markers
     /\ ~CsvReadAborted

\* C5: a Loader step that fails (a Spark write, or the rmtree / makedirs /
\* copytree of a sync) aborts the pipeline there: no later sync, no upload.
C5_LoadErrorsFatal ==
  \A u \in LoaderUnits :
    <<u, "fail">> \in ended => (Aborted /\ calls["upload"] = 0)

\* C6: the Storage Preparer fails fast. When CREATE VOLUME or a mkdirs fails,
\* the script stops there: no later folder is created, no later stage runs,
\* the ready marker is not printed, no call is repeated and the launcher
\* ends with an error.
C6_PreparerFailsFast ==
  <<"Preparer", "fail">> \in ended =>
     /\ pc = "Crashed"
     /\ stageLog = <<"Preparer">>
     /\ <<"Preparer", "ok">> \notin markers
     /\ \A i \in 1..Len(Folders) :
          i >= folderIdx => folder[Folders[i]] = store0.folder[Folders[i]]
     /\ calls["createVolume"] = 1
     /\ calls["mkdirs"] = folderIdx
     /\ launcher \in {"running", "error"}

\* The second mkdirs failed, the launcher has returned, and the folder after
\* the failing one was absent at the start.
C6_Witness ==
  /\ <<"Preparer", "fail">> \in ended
  /\ folderIdx = 2
  /\ launcher = "error"
  /\ store0.folder["input"] = FALSE
  /\ store0.folder["other"] = FALSE

\* C7: the Storage Preparer is idempotent. From every initial storage state,
\* a further run raises no error and leaves the storage as the first run
\* left it, every required location present and no prior content removed.
C7_PreparerIdempotent ==
  /\ pc # "Crashed"
  /\ prepRuns >= 1 =>
       /\ Store = prepSnap
       /\ volume
       /\ \A i \in 1..Len(Folders) : folder[Folders[i]]
       /\ store0.inputFiles \subseteq inputFiles
       /\ outVol = store0.outVol
       /\ otherVol = store0.otherVol

\* The Preparer has run twice on storage that held an input folder with
\* files in it and lacked the "other" folder.
C7_Witness ==
  /\ prepRuns = 2
  /\ pc = "Extract"
  /\ store0.inputFiles # {}
  /\ store0.folder["other"] = FALSE

\* C8: the upload is invoked at most once per run; when it fails the error
\* leaves upload_to_s3 uncaught, the script ends with an error, the launcher
\* raises, and the "Uploaded" marker is not printed.
C8_PublishFailureSurfaced ==
  /\ calls["upload"] <= 1
  /\ <<"Publisher", "fail">> \in ended =>
       /\ pc = "Crashed"
       /\ <<"Publisher", "ok">> \notin markers
       /\ launcher \in {"running", "error"}

\* The upload failed although the artifact was there, and the launcher raised.
C8_Witness ==
  /\ <<"Publisher", "fail">> \in ended
  /\ resultCsv
  /\ launcher = "error"

\* The marker kinds that report an outcome
MarkerKinds(outcome) == IF outcome = "ok" THEN {"ok"} ELSE {"fail", "notfound"}

\* C9: no silent failures. Every unit of work that ended (Storage Preparer,
\* Extractor, Transformer, each Loader write and sync, Publisher) has had
\* its own success or failure marker printed or logged by the script.
C9_EveryUnitMarked ==
  \A e \in ended : \E m \in markers : m[1] = e[1] /\ m[2] \in MarkerKinds(e[2])

\* C10 as stated, for the two workspace destinations: once the run is aborted
\* (in the middle of a sync included), a destination that was already written
\* is exactly as the last completed Loader step that wrote it left it: as the
\* sync of this run left it, or else as it was when the run started.
C10_AsLastCompletedLoaderLeftIt ==
  Aborted =>
     /\ 1 \in committed.synced => wsOut = committed.wsOut
     /\ (1 \notin committed.synced /\ Present(ws0.out.files) # {}) => wsOut = ws0.out
     /\ 2 \in committed.synced => wsOther = committed.wsOther
     /\ (2 \notin committed.synced /\ Present(ws0.other.files) # {}) => wsOther = ws0.other

\* C10 (amended): no rollback on abort. Once the run is aborted (a crash at
\* any step, a kill in the middle of a sync, a failed upload), every location
\* written by a step that completed in this run is exactly as that step left
\* it; only the destination of the interrupted step may differ.
C10_NoRollback ==
  Aborted =>
     /\ committed.extracted => CsvFile \in inputFiles
     /\ \A n \in committed.written : outVol[n] = "run"
     /\ 1 \in committed.synced => wsOut = committed.wsOut
     /\ 2 \in committed.synced => wsOther = committed.wsOther

\* Killed in the middle of the second sync (destination created, a file still
\* to copy) after the three writes and the first sync completed.
C10_Witness ==
  /\ pc = "Killed"
  /\ syncIdx = 2
  /\ wsOther.exists
  /\ ToCopy(wsOther, otherVol) # {}
  /\ Present(ws0.other.files) # {}
  /\ committed.written = OutNames
  /\ 1 \in committed.synced
  /\ committed.wsOut.files = outVol

Size(t) == Cardinality(DOMAIN t)

\* C11: for every pair of tables customer (left) and sales (right) joined on
\* customer_id, |inner| <= |left-outer| <= |full-outer|, |inner| <=
\* |right-outer| <= |full-outer| and |crossJoin| = |left| * |right|; the
\* left-outer join holds every left row and the right-outer join every right
\* row, the fields of the side that found no partner being null; select and
\* sort keep the row counts; for the script's tables the counts are inner 9,
\* left 14, right 10, outer 15, cross 100.
C11_JoinRowCounts ==
  dfOut.kind = "join" =>
    LET L == dfIn.customer
        R == dfIn.sales
        o == dfOut
    IN /\ Size(o.inner) <= Size(o.left)
       /\ Size(o.left) <= Size(o.outer)
       /\ Size(o.inner) <= Size(o.right)
       /\ Size(o.right) <= Size(o.outer)
       /\ Size(o.cross) = Len(L) * Len(R)
       /\ \A i \in 1..Len(L) :
            \E p \in DOMAIN o.left :
              /\ p[1] = i
              /\ o.left[p].customer_id = L[i].customer_id
              /\ (\A j \in 1..Len(R) : ~Holds(JoinCond(L[i], R[j])))
                   => IsNull(o.left[p].s_customer_id) /\ IsNull(o.left[p].product_id)
       /\ \A j \in 1..Len(R) :
            \E p \in DOMAIN o.right :
              /\ p[2] = j
              /\ o.right[p].s_customer_id = R[j].customer_id
              /\ o.right[p].product_id = R[j].product_id
              /\ (\A i \in 1..Len(L) : ~Holds(JoinCond(L[i], R[j])))
                   => IsNull(o.right[p].customer_id)
       /\ Len(o.shown.inner) = Size(o.inner)
       /\ Len(o.shown.left) = Size(o.left)
       /\ Len(o.shown.right) = Size(o.right)
       /\ Len(o.shown.outer) = Size(o.outer)
       /\ (dfIn = ScriptJoinInput =>
             /\ Size(o.inner) = 9
             /\ Size(o.left) = 14
             /\ Size(o.right) = 10
             /\ Size(o.outer) = 15
             /\ Size(o.cross) = 100)

\* The script's tables joined: five customers and one sale find no partner.
C11_Witness ==
  /\ dfOut.kind = "join"
  /\ dfIn = ScriptJoinInput
  /\ Cardinality({p \in DOMAIN dfOut.outer : p[2] = NoRow}) = 5
  /\ Cardinality({p \in DOMAIN dfOut.outer : p[1] = NoRow}) = 1

\* The salaries of the rows idx that are higher than salary s
Higher(rows, idx, s) == { rows[j].salary : j \in { x \in idx : rows[x].salary > s } }

\* C12: within every department partition of e_window_df ordered by salary
\* descending, row_number is 1..n with no repeats, rank and dense_rank never
\* decrease along that order, rows of equal salary share their rank and
\* their dense_rank, rank is 1 + the number of rows with a strictly higher
\* salary (so it jumps by k after a tie of k rows) and dense_rank is
\* 1 + the number of distinct higher salaries (values 1..d without gaps, d
\* the number of distinct salaries).
C12_RankingWithinPartition ==
  dfOut.kind = "window" =>
    LET rows == dfIn.rows
        c == dfOut.cols
    IN \A d \in Departments(rows) :
         LET idx == Partition(rows, d)
             o == dfOut.order[d]
             n == Cardinality(idx)
         IN /\ { c[i].row_number : i \in idx } = 1..n
            /\ \A i, j \in idx : c[i].row_number = c[j].row_number => i = j
            /\ \A k \in 1..n : c[o[k]].row_number = k
            /\ \A k, l \in 1..n :
                 k <= l => /\ rows[o[k]].salary >= rows[o[l]].salary
                           /\ c[o[k]].rank <= c[o[l]].rank
                           /\ c[o[k]].dense_rank <= c[o[l]].dense_rank
            /\ \A i, j \in idx :
                 rows[i].salary = rows[j].salary =>
                   c[i].rank = c[j].rank /\ c[i].dense_rank = c[j].dense_rank
            /\ \A i \in idx :
                 /\ c[i].rank = 1 + Cardinality({ j \in idx : rows[j].salary > rows[i].salary })
                 /\ c[i].dense_rank = 1 + Cardinality(Higher(rows, idx, rows[i].salary))
            /\ { c[i].dense_rank : i \in idx }
                 = 1..Cardinality({ rows[i].salary : i \in idx })

\* e_df ranked: in sales the two rows of salary 90000 share rank 1 and the
\* next row has rank 3 and dense_rank 2.
C12_Witness ==
  /\ dfOut.kind = "window"
  /\ dfIn = ScriptWindowInput
  /\ dfOut.cols[5].rank = 1
  /\ dfOut.cols[12].rank = 1
  /\ dfOut.cols[2].rank = 3
  /\ dfOut.cols[2].dense_rank = 2

\* The rows idx that ntile put in bucket b
Bucket(c, idx, b) == { i \in idx : c[i].ntile = b }

BucketSizes(c, idx) == [b \in 1..NtileBuckets |-> Cardinality(Bucket(c, idx, b))]

\* C13: ntile(3) over a department partition of n rows ordered by salary
\* descending gives bucket numbers 1..3 that never decrease along the order,
\* bucket sizes that differ by at most 1, and the n mod 3 extra rows to the
\* lowest-numbered buckets (n = 5: 2, 2, 1; n = 4: 2, 1, 1; n = 3: 1, 1, 1).
C13_NtileBuckets ==
  dfOut.kind = "window" =>
    LET rows == dfIn.rows
        c == dfOut.cols
    IN \A d \in Departments(rows) :
         LET idx == Partition(rows, d)
             o == dfOut.order[d]
             n == Cardinality(idx)
             size == BucketSizes(c, idx)
         IN /\ \A i \in idx : c[i].ntile \in 1..NtileBuckets
            /\ \A k, l \in 1..n : k <= l => c[o[k]].ntile <= c[o[l]].ntile
            /\ \A a, b \in 1..NtileBuckets : size[a] - size[b] <= 1
            /\ \A b \in 1..NtileBuckets :
                 size[b] = (n \div NtileBuckets) + (IF b <= n % NtileBuckets THEN 1 ELSE 0)
            /\ (n = 5 => size = <<2, 2, 1>>)
            /\ (n = 4 => size = <<2, 1, 1>>)
            /\ (n = 3 => size = <<1, 1, 1>>)

\* e_df bucketed: IT (5 rows) 2, 2, 1; marketing (4 rows) 2, 1, 1; sales
\* (3 rows) 1, 1, 1.
C13_Witness ==
  /\ dfOut.kind = "window"
  /\ dfIn = ScriptWindowInput
  /\ BucketSizes(dfOut.cols, Partition(EData, "IT")) = <<2, 2, 1>>
  /\ BucketSizes(dfOut.cols, Partition(EData, "marketing")) = <<2, 1, 1>>
  /\ BucketSizes(dfOut.cols, Partition(EData, "sales")) = <<1, 1, 1>>

\* C14: for every row of emp_df (age an integer or null) is_adult is the
\* value of the first when-branch whose condition is true and the otherwise
\* value when none is, a comparison with a null age not being true: emp_df_1
\* gives null for a null age, "Yes" for age > 18 and "No" otherwise; emp_df_2
\* gives "minor" for 0 < age < 18, "medium" for 18 < age < 30 and "major" for
\* every other row, age = 18 and null age included.
C14_FirstMatchWithDefault ==
  dfOut.kind = "case" =>
    /\ Len(dfOut.emp_df_1) = Len(dfIn.emp)
    /\ Len(dfOut.emp_df_2) = Len(dfIn.emp)
    /\ \A i \in 1..Len(dfIn.emp) :
         LET age == dfIn.emp[i].age
             known == age # Null
         IN /\ dfOut.emp_df_1[i].age = age
            /\ dfOut.emp_df_2[i].age = age
            /\ dfOut.emp_df_1[i].is_adult =
                 (IF ~known THEN Null
                  ELSE IF age[1] > 18 THEN Val("Yes")
                  ELSE Val("No"))
            /\ dfOut.emp_df_2[i].is_adult =
                 (IF known /\ 0 < age[1] /\ age[1] < 18 THEN Val("minor")
                  ELSE IF known /\ 18 < age[1] /\ age[1] < 30 THEN Val("medium")
                  ELSE Val("major"))
            /\ (~known \/ age = Val(18)) => dfOut.emp_df_2[i].is_adult = Val("major")

\* emp_df derived: the row of age 26 is "Yes" and "medium", the row of null
\* age null and "major", the row of age 12 "No" and "minor".
C14_Witness ==
  /\ dfOut.kind = "case"
  /\ dfIn = ScriptCaseInput
  /\ dfOut.emp_df_1[1].is_adult = Val("Yes")
  /\ dfOut.emp_df_2[1].is_adult = Val("medium")
  /\ dfOut.emp_df_1[2].is_adult = Null
  /\ dfOut.emp_df_2[2].is_adult = Val("major")
  /\ dfOut.emp_df_1[3].is_adult = Val("No")
  /\ dfOut.emp_df_2[3].is_adult = Val("minor")

\* How many times row r stands in rows
Count(rows, r) == Cardinality({ k \in 1..Len(rows) : rows[k] = r })

SameRows(a, b) ==
  /\ Len(a) = Len(b)
  /\ \A k \in 1..Len(a) : Count(a, a[k]) = Count(b, a[k])

\* The pairs of rows that are exact duplicates of each other
DuplicatePairs(rows) ==
  { p \in (1..Len(rows)) \X (1..Len(rows)) : p[1] < p[2] /\ rows[p[1]] = rows[p[2]] }

\* C15: the positional union of two same-shaped tables keeps every row of
\* both, duplicates included: |A.union(B)| = |A| + |B| (12 for manager_df_1
\* and manager_df_2, with the row (18, Sam, 65000, 17) twice); union,
\* unionAll and unionByName hold the same rows the same number of times
\* when both tables list their columns in the same order; distinct() (and
\* dropDuplicates over all the columns) on a table with exactly one exact
\* duplicate row lowers the row count by exactly 1.
C15_UnionKeepsDuplicates ==
  dfOut.kind = "union" =>
    LET A == dfIn.manager_df_1
        B == dfIn.manager_df_2
        M == dfIn.mngr_df
        u == dfOut.manager_df_union.rows
    IN /\ Len(u) = Len(A.rows) + Len(B.rows)
       /\ \A k \in 1..Len(u) : Count(u, u[k]) = Count(A.rows, u[k]) + Count(B.rows, u[k])
       /\ A.cols = B.cols =>
            /\ SameRows(u, dfOut.manager_df_unionAll.rows)
            /\ SameRows(u, dfOut.manager_df_unionByName.rows)
       /\ dfIn = ScriptUnionInput =>
            /\ Len(u) = 12
            /\ Count(u, <<18, "Sam", 65000, 17>>) = 2
       /\ Cardinality(DuplicatePairs(M.rows)) = 1 =>
            /\ Len(dfOut.mngr_df_1.rows) = Len(M.rows) - 1
            /\ Len(dfOut.mngr_df_3.rows) = Len(M.rows) - 1

\* A table holding one row twice united with a one-row table of the same
\* column order: three rows, the repeated one twice; its distinct() has one
\* row less.
C15_Witness ==
  /\ dfOut.kind = "union"
  /\ dfIn.manager_df_1.cols = dfIn.manager_df_2.cols
  /\ Len(dfIn.manager_df_1.rows) = 2
  /\ Len(dfIn.manager_df_2.rows) = 1
  /\ Cardinality(DuplicatePairs(dfIn.mngr_df.rows)) = 1
  /\ Len(dfOut.manager_df_union.rows) = 3
  /\ Count(dfOut.manager_df_union.rows, dfIn.manager_df_1.rows[1]) >= 2
  /\ Len(dfOut.mngr_df_1.rows) = 1

\* C16: a sync_back_to_workspace call whose volume_src does not exist leaves
\* workspace_dest and every other location (the volume, the workspace
\* copies, the local files) unchanged, prints the "Source Volume folder not
\* found" marker for that call, raises nothing, and the run goes on with the
\* next sync and then the Publisher; a workspace copy changes only during a
\* call whose volume_src exists.
C16_AbsentSourceChangesNothing ==
  [][ /\ (pc = "SyncCheck" /\ ~(mounted /\ folder[SyncFolder]) /\ pc' # "Killed")
           => /\ UNCHANGED <<vol, ws, env>>
              /\ markers' = markers \cup {<<SyncUnit(syncIdx), "notfound">>}
              /\ <<SyncUnit(syncIdx), "notfound">> \in ended'
              /\ pc' = (IF syncIdx = 1 THEN "SyncCheck" ELSE "Upload")
              /\ syncIdx' = 2
      /\ ws' # ws => mounted /\ folder[SyncFolder]
    ]_vars

\* A run that found neither source folder and ran to its end: both prior
\* workspace copies, which held files, are as they were.
C16_Witness ==
  /\ pc = "Exit0"
  /\ <<"Sync1", "notfound">> \in markers
  /\ <<"Sync2", "notfound">> \in markers
  /\ <<"Publisher", "ok">> \in ended
  /\ Present(ws0.out.files) # {}
  /\ Present(ws0.other.files) # {}
  /\ wsOut = ws0.out
  /\ wsOther = ws0.other

====
